---- MODULE Spec2Model ----
(***************************************************************************)
(* Model of hrtfdata/query.py: the specification-driven, side-aware        *)
(* subject-id resolution of the DataQuery classes.                          *)
(*                                                                         *)
(* Python strings that the code inspects with startswith/endswith or       *)
(* orders with sorted() are modelled as sequences of one-character         *)
(* strings, compared by code point as Python compares them.  Dictionary    *)
(* keys, which the code only tests for membership, are TLA+ strings.       *)
(***************************************************************************)
EXTENDS Integers, Sequences, FiniteSets, TLC

(***************************************************************************)
(* Bounds of the model.                                                    *)
(***************************************************************************)
\* subject ids are 1..MaxId
MaxId == 3
\* a raw per-side id enumeration handed to _id_helper has at most MaxLen ids
MaxLen == 2

Ids == 1..MaxId

(***************************************************************************)
(* Python str: sequences of characters, ordered by code point.             *)
(***************************************************************************)
Letters == <<"a", "b", "c", "d", "e", "f", "g", "h", "i", "j", "k", "l", "m",
             "n", "o", "p", "q", "r", "s", "t", "u", "v", "w", "x", "y", "z">>

\* ord(c) for the characters that occur: '-' is 45, 'a'..'z' are 97..122
Ord(c) == IF c = "-" THEN 45
          ELSE 96 + (CHOOSE i \in 1..Len(Letters) : Letters[i] = c)

\* str.__lt__: lexicographic comparison by code point
RECURSIVE StrLess(_, _)
StrLess(a, b) ==
    IF b = <<>> THEN FALSE
    ELSE IF a = <<>> THEN TRUE
    ELSE IF Head(a) = Head(b) THEN StrLess(Tail(a), Tail(b))
    ELSE Ord(Head(a)) < Ord(Head(b))

\* str.startswith(prefix)
StartsWith(s, prefix) ==
    /\ Len(s) >= Len(prefix)
    /\ SubSeq(s, 1, Len(prefix)) = prefix

\* str.endswith(suffix)
EndsWith(s, suffix) ==
    /\ Len(s) >= Len(suffix)
    /\ SubSeq(s, Len(s) - Len(suffix) + 1, Len(s)) = suffix

\* the string literals of the code
S_left == <<"l", "e", "f", "t">>
S_right == <<"r", "i", "g", "h", "t">>
S_both == <<"b", "o", "t", "h">>
S_any == <<"a", "n", "y">>
S_mirrored_left == <<"m", "i", "r", "r", "o", "r", "e", "d", "-">> \o S_left
S_mirrored_right == <<"m", "i", "r", "r", "o", "r", "e", "d", "-">> \o S_right

(***************************************************************************)
(* Python tuples (id, side) and sorted().                                  *)
(***************************************************************************)
\* tuple.__lt__ on (int, str) pairs
PairLess(p, q) ==
    \/ p[1] < q[1]
    \/ p[1] = q[1] /\ StrLess(p[2], q[2])

\* as Insert, dropping p when its id is already in s
RECURSIVE InsertUniqueId(_, _)
InsertUniqueId(p, s) ==
    IF s = <<>> THEN <<p>>
    ELSE IF p[1] = Head(s)[1] THEN s
    ELSE IF p[1] < Head(s)[1] THEN <<p>> \o s
    ELSE <<Head(s)>> \o InsertUniqueId(p, Tail(s))

\* insert p into the ascending sequence s, after the elements equal to it
RECURSIVE Insert(_, _)
Insert(p, s) ==
    IF s = <<>> THEN <<p>>
    ELSE IF PairLess(p, Head(s)) THEN <<p>> \o s
    ELSE <<Head(s)>> \o Insert(p, Tail(s))

\* sorted(list of pairs)
RECURSIVE SortedPairs(_)
SortedPairs(s) ==
    IF s = <<>> THEN <<>>
    ELSE Insert(s[Len(s)], SortedPairs(SubSeq(s, 1, Len(s) - 1)))

\* sorted(set of ints)
RECURSIVE SortedInts(_)
SortedInts(S) ==
    IF S = {} THEN <<>>
    ELSE LET m == CHOOSE x \in S : \A y \in S : x <= y
         IN <<m>> \o SortedInts(S \ {m})

\* sorted(set of pairs)
RECURSIVE SortedPairSet(_)
SortedPairSet(S) ==
    IF S = {} THEN <<>>
    ELSE LET m == CHOOSE p \in S : \A q \in S : p = q \/ PairLess(p, q)
         IN <<m>> \o SortedPairSet(S \ {m})

\* set(sequence)
Range(s) == {s[k] : k \in 1..Len(s)}

\* [f(x) for x in s]
RECURSIVE MapPair(_, _)
MapPair(s, label) ==
    IF s = <<>> THEN <<>>
    ELSE <<<<Head(s), label>>>> \o MapPair(Tail(s), label)

\* [(i, s) for i, s in ids if i not in exclude]
RECURSIVE DropExcluded(_, _)
DropExcluded(ids, exclude) ==
    IF ids = <<>> THEN <<>>
    ELSE IF Head(ids)[1] \in exclude
         THEN DropExcluded(Tail(ids), exclude)
         ELSE <<Head(ids)>> \o DropExcluded(Tail(ids), exclude)

\* as EachWithSides, attaching the first label only
RECURSIVE EachWithFirstSide(_, _)
EachWithFirstSide(both_ids, sides) ==
    IF both_ids = <<>> THEN <<>>
    ELSE <<<<Head(both_ids), sides[1]>>>>
         \o EachWithFirstSide(Tail(both_ids), sides)

\* [(i, s) for i in both_ids for s in sides]
RECURSIVE EachWithSides(_, _)
EachWithSides(both_ids, sides) ==
    IF both_ids = <<>> THEN <<>>
    ELSE <<<<Head(both_ids), sides[1]>>, <<Head(both_ids), sides[2]>>>>
         \o EachWithSides(Tail(both_ids), sides)

(***************************************************************************)
(* Optional arguments: None or a collection of ids.                        *)
(***************************************************************************)
None == [given |-> FALSE, ids |-> {}]
Some(S) == [given |-> TRUE, ids |-> S]

(***************************************************************************)
(* DataQuery._id_helper(side, id_fn, exclude, default_exclude).            *)
(* id_fn is the enumerator, a record [left, right] of the id sequences it  *)
(* returns for 'left' and for 'right'.  The result records the rows or the *)
(* ValueError, and the sides for which the enumerator was called.          *)
(***************************************************************************)
\* as SideLabels, without the mirrored labels
SideLabelsPlain(side) == <<S_left, S_right>>

\* the pair of labels derived from the selector's ending
SideLabels(side) ==
    IF EndsWith(side, S_left) THEN <<S_left, S_mirrored_right>>
    ELSE IF EndsWith(side, S_right) THEN <<S_mirrored_left, S_right>>
    ELSE <<S_left, S_right>>

\* as EffectiveExclude, adding the default to a given exclude
EffectiveExcludeUnion(exclude, default_exclude) ==
    exclude.ids \cup default_exclude

\* exclude if it is not None, else default_exclude
EffectiveExclude(exclude, default_exclude) ==
    IF ~exclude.given THEN default_exclude ELSE exclude.ids

\* an enumerator call that returned ids / that raised
Returned(ids) == [ok |-> TRUE, ids |-> ids]
Raised == [ok |-> FALSE, ids |-> <<>>]

IdHelper(side, id_fn, exclude, default_exclude) ==
    IF StartsWith(side, S_both) \/ StartsWith(side, S_any) THEN
        IF ~id_fn.left.ok
        THEN [ok |-> FALSE, err |-> "enumerator", rows |-> <<>>,
              called |-> <<S_left>>]
        ELSE IF ~id_fn.right.ok
        THEN [ok |-> FALSE, err |-> "enumerator", rows |-> <<>>,
              called |-> <<S_left, S_right>>]
        ELSE
        LET left_ids == id_fn.left.ids
            right_ids == id_fn.right.ids
            sides == SideLabels(side)
            ids == IF StartsWith(side, S_both)
                   THEN EachWithSides(
                            SortedInts(Range(left_ids) \cap Range(right_ids)),
                            sides)
                   ELSE SortedPairs(MapPair(left_ids, sides[1])
                                    \o MapPair(right_ids, sides[2]))
        IN [ok |-> TRUE, err |-> "",
            rows |-> DropExcluded(ids,
                                  EffectiveExclude(exclude, default_exclude)),
            called |-> <<S_left, S_right>>]
    ELSE IF side \in {S_left, S_right} THEN
        LET r == IF side = S_left THEN id_fn.left ELSE id_fn.right
        IN IF ~r.ok
           THEN [ok |-> FALSE, err |-> "enumerator", rows |-> <<>>,
                 called |-> <<side>>]
           ELSE [ok |-> TRUE, err |-> "",
                 rows |-> DropExcluded(MapPair(r.ids, side),
                              EffectiveExclude(exclude, default_exclude)),
                 called |-> <<side>>]
    ELSE [ok |-> FALSE, err |-> "side", rows |-> <<>>, called |-> <<>>]

(***************************************************************************)
(* Specifications (nested dicts).  A specification is a function from its  *)
(* root keys to blocks; a block records the entries the code reads (side,  *)
(* exclude, select, partial) and the set of its other keys.                *)
(***************************************************************************)
NoSide == [given |-> FALSE, val |-> <<>>]
SomeSide(s) == [given |-> TRUE, val |-> s]

\* the dictionary keys that are numbers (the key 7, written "7")
NumberKeys == {"7"}

\* isinstance(x, Number)
IsNumber(x) == x \in NumberKeys

\* given_dict[key].keys()
BlockKeys(b) ==
    b.other
    \cup (IF b.side.given THEN {"side"} ELSE {})
    \cup (IF b.exclude.given THEN {"exclude"} ELSE {})
    \cup (IF b.select.kind # "none" THEN {"select"} ELSE {})
    \cup (IF b.partial.given THEN {"partial"} ELSE {})

\* the literal tuples of allowed keys in validate_specification
HrirsKeys == {"side", "domain", "fundamental_angles", "orthogonal_angles",
              "scale_factor", "samplerate", "length", "min_phase", "exclude",
              "preprocess", "transform"}
PlainKeys == {"preprocess", "transform"}
ImageKeys == {"side", "rear", "preprocess", "transform"}
AnthropometryKeys == {"side", "select", "partial", "preprocess", "transform"}

\* as UnknownKeys, without the exemption of numeric keys
UnknownKeysWithNumbers(keys, allowed_keys) == keys \ allowed_keys

\* the unknown keys of one location: validate_dict's unknown_keys
UnknownKeys(keys, allowed_keys) ==
    {x \in keys \ allowed_keys : ~IsNumber(x)}

\* as ValidateDict, naming one unknown key only
ValidateDictFirstOnly(spec, allowed_keys, key) ==
    IF key # "" /\ key \notin DOMAIN spec
    THEN [ok |-> TRUE, keys |-> {}, loc |-> ""]
    ELSE LET given_keys == IF key = "" THEN DOMAIN spec
                           ELSE BlockKeys(spec[key])
             unknown_keys == {x \in given_keys \ allowed_keys : ~IsNumber(x)}
         IN IF unknown_keys # {}
            THEN [ok |-> FALSE, keys |-> {CHOOSE x \in unknown_keys : TRUE},
                  loc |-> IF key = "" THEN "specification" ELSE key]
            ELSE [ok |-> TRUE, keys |-> {}, loc |-> ""]

\* validate_dict(given_dict, allowed_keys, key): the error it raises, if any
ValidateDict(spec, allowed_keys, key) ==
    IF key # "" /\ key \notin DOMAIN spec
    THEN [ok |-> TRUE, keys |-> {}, loc |-> ""]
    ELSE LET given_keys == IF key = "" THEN DOMAIN spec
                           ELSE BlockKeys(spec[key])
             unknown_keys == UnknownKeys(given_keys, allowed_keys)
         IN IF unknown_keys # {}
            THEN [ok |-> FALSE, keys |-> unknown_keys,
                  loc |-> IF key = "" THEN "specification" ELSE key]
            ELSE [ok |-> TRUE, keys |-> {}, loc |-> ""]

\* the calls of validate_dict made by validate_specification, in order
ValidationSteps(allowed_keys) ==
    << <<allowed_keys, "">>,
       <<HrirsKeys, "hrirs">>,
       <<PlainKeys, "subject">>,
       <<PlainKeys, "side">>,
       <<PlainKeys, "collection">>,
       <<ImageKeys, "image">>,
       <<AnthropometryKeys, "anthropometry">> >>

\* run the steps from the k-th on; the first error raised ends the run
RECURSIVE ValidateFrom(_, _, _)
ValidateFrom(spec, steps, k) ==
    IF k > Len(steps) THEN [ok |-> TRUE, keys |-> {}, loc |-> ""]
    ELSE LET r == ValidateDict(spec, steps[k][1], steps[k][2])
         IN IF r.ok THEN ValidateFrom(spec, steps, k + 1) ELSE r

\* DataQuery.validate_specification(spec)
ValidateSpecification(allowed_keys, spec) ==
    ValidateFrom(spec, ValidationSteps(allowed_keys), 1)

(***************************************************************************)
(* AnthropometryDataQuery.  The store of an adapter is                      *)
(*   ids    : _anthropometric_ids, the subjects in raw store order,         *)
(*   groups : _anthropometry, a function from group name to a matrix, or   *)
(*            for the pinna groups to a record [left, right] of matrices.  *)
(* A matrix is a sequence of rows, one per subject; an entry is TRUE when  *)
(* the measurement is a number and FALSE when it is NaN.                   *)
(***************************************************************************)
NoSelect == [kind |-> "none", val |-> <<>>]
StrSelect(g) == [kind |-> "str", val |-> <<g>>]
TupleSelect(gs) == [kind |-> "tuple", val |-> gs]

NoPartial == [given |-> FALSE, val |-> FALSE]
SomePartial(b) == [given |-> TRUE, val |-> b]

S_mirrored == <<"m", "i", "r", "r", "o", "r", "e", "d", "-">>

\* s.startswith('pinna') for a group name s
IsPinna(s) == s \in {"pinna-size", "pinna-angle"}

\* tuple(self._anthropometry.keys()), in the order they were stored
AllowedAnthropometrySelection(anth) == anth.order

\* _selection_validator(select): the selection, or the ValueError
SelectionValidator(anth, select) ==
    LET sel == IF select.kind = "none"
               THEN AllowedAnthropometrySelection(anth)
               ELSE select.val
        unknown_select == Range(sel) \ Range(AllowedAnthropometrySelection(anth))
    IN IF unknown_select # {} THEN [ok |-> FALSE, val |-> <<>>]
       ELSE [ok |-> TRUE, val |-> sel]

\* side.split('mirrored-')[-1] for the sides _anthropometry_values admits
RealSide(side) ==
    IF StartsWith(side, S_mirrored)
    THEN SubSeq(side, Len(S_mirrored) + 1, Len(side))
    ELSE side

\* the matrix of one selected group for a physical side
GroupMatrix(anth, s, real_side) ==
    IF IsPinna(s)
    THEN (IF real_side = S_left THEN anth.groups[s].left
          ELSE anth.groups[s].right)
    ELSE anth.groups[s]

\* one row of np.column_stack([...]) over the selection
RECURSIVE StackRow(_, _, _, _)
StackRow(anth, sel, real_side, r) ==
    IF sel = <<>> THEN <<>>
    ELSE GroupMatrix(anth, Head(sel), real_side)[r]
         \o StackRow(anth, Tail(sel), real_side, r)

\* _anthropometry_values(side, select): the matrix, or the ValueError
AnthropometryValues(anth, side, select) ==
    LET sel == SelectionValidator(anth, select)
    IN IF ~sel.ok THEN [ok |-> FALSE, rows |-> <<>>]
       ELSE IF side \notin {S_left, S_right, S_mirrored_left, S_mirrored_right}
       THEN [ok |-> FALSE, rows |-> <<>>]
       ELSE [ok |-> TRUE,
             rows |-> [r \in 1..Len(anth.ids) |->
                          StackRow(anth, sel.val, RealSide(side), r)]]

\* as RowAllowed, asking for every entry whatever partial is
RowAllowedAll(row, partial) == \A c \in 1..Len(row) : row[c]

\* (~np.isnan(m)).any(axis=1) / .all(axis=1) for one row
RowAllowed(row, partial) ==
    IF partial THEN \E c \in 1..Len(row) : row[c]
    ELSE \A c \in 1..Len(row) : row[c]

\* self._anthropometric_ids[allowed_id_mask]
RECURSIVE Masked(_, _, _, _)
Masked(ids, rows, partial, r) ==
    IF r > Len(ids) THEN <<>>
    ELSE (IF RowAllowed(rows[r], partial) THEN <<ids[r]>> ELSE <<>>)
         \o Masked(ids, rows, partial, r + 1)

\* _all_anthropometry_ids(side, select, partial): the ids, or the ValueError
AllAnthropometryIds(anth, side, select, partial) ==
    LET selected_anthropometry == AnthropometryValues(anth, side, select)
    IN IF ~selected_anthropometry.ok THEN Raised
       ELSE Returned(Masked(anth.ids, selected_anthropometry.rows, partial, 1))

(***************************************************************************)
(* The public id queries.  adapter holds the attributes set at             *)
(* construction, store what the enumerators find.                          *)
(***************************************************************************)
\* HrirDataQuery.hrir_ids(side, exclude)
HrirIds(adapter, store, side, exclude) ==
    IdHelper(side,
             [left |-> Returned(store.hrirs.left),
              right |-> Returned(store.hrirs.right)],
             exclude, adapter.default_hrirs_exclude)

\* ImageDataQuery.image_ids(side, rear, exclude)
ImageIds(adapter, store, side, exclude) ==
    IdHelper(side,
             [left |-> Returned(store.image.left),
              right |-> Returned(store.image.right)],
             exclude, adapter.default_images_exclude)

\* AnthropometryDataQuery.anthropometry_ids(side, select, partial, exclude)
AnthropometryIds(adapter, store, side, select, partial, exclude) ==
    IdHelper(side,
             [left |-> AllAnthropometryIds(store.anthropometry, S_left,
                                           select, partial),
              right |-> AllAnthropometryIds(store.anthropometry, S_right,
                                            select, partial)],
             exclude, adapter.default_anthropometry_exclude)

(***************************************************************************)
(* DataQuery.specification_based_ids(specification, include_subjects,      *)
(* exclude_subjects).                                                      *)
(* include_subjects is None, 'first', 'last', 'random' or a collection of  *)
(* ids: [kind, ids].                                                       *)
(***************************************************************************)
IncludeNone == [kind |-> "none", ids |-> {}]
IncludeWord(w) == [kind |-> w, ids |-> {}]
IncludeIds(S) == [kind |-> "ids", ids |-> S]

\* the blocks whose side is recorded, in the order of the loop
SideOrder == <<"hrirs", "image", "anthropometry">>

\* the blocks that are resolved, in the order of the if statements
EvalOrder == <<"image", "anthropometry", "hrirs">>

\* all_sides: the (key, side) items in insertion order, from the k-th key on
RECURSIVE AllSidesFrom(_, _)
AllSidesFrom(spec, k) ==
    IF k > Len(SideOrder) THEN <<>>
    ELSE LET key == SideOrder[k]
         IN (IF key \in DOMAIN spec /\ spec[key].side.given
             THEN <<[key |-> key, side |-> spec[key].side.val]>>
             ELSE <<>>)
            \o AllSidesFrom(spec, k + 1)

AllSides(spec) == AllSidesFrom(spec, 1)

\* len(set(all_sides.values())) > 1: the warning is emitted
SidesWarning(spec) ==
    Cardinality({AllSides(spec)[k].side : k \in 1..Len(AllSides(spec))}) > 1

\* as DefaultSide, taking the side recorded last
DefaultSideLast(spec) ==
    IF Len(AllSides(spec)) > 0 THEN AllSides(spec)[Len(AllSides(spec))].side
    ELSE S_any

\* default_side
DefaultSide(spec) ==
    IF Len(AllSides(spec)) > 0 THEN AllSides(spec)[1].side ELSE S_any

\* specification[key].get('side', default_side)
BlockSide(spec, key) ==
    IF spec[key].side.given THEN spec[key].side.val ELSE DefaultSide(spec)

\* specification[key].get('exclude', exclude_subjects)
BlockExclude(spec, key, exclude_subjects) ==
    IF spec[key].exclude.given THEN Some(spec[key].exclude.ids)
    ELSE exclude_subjects

\* the keyword arguments taken from the anthropometry block
BlockSelect(spec) == spec["anthropometry"].select
BlockPartial(spec) ==
    IF spec["anthropometry"].partial.given
    THEN spec["anthropometry"].partial.val ELSE FALSE

\* the id query of one modality block
ModalityIds(adapter, store, spec, key, exclude_subjects) ==
    IF key = "image"
    THEN ImageIds(adapter, store, BlockSide(spec, key),
                  BlockExclude(spec, key, exclude_subjects))
    ELSE IF key = "anthropometry"
    THEN AnthropometryIds(adapter, store, BlockSide(spec, key),
                          BlockSelect(spec), BlockPartial(spec),
                          BlockExclude(spec, key, exclude_subjects))
    ELSE HrirIds(adapter, store, BlockSide(spec, key),
                 BlockExclude(spec, key, exclude_subjects))

\* the enumerator calls of one id query, tagged with the modality
Tagged(key, called) == [k \in 1..Len(called) |-> <<key, called[k]>>]

\* separate_ids, built from the k-th block of EvalOrder on; an id query that
\* raises ends the call
RECURSIVE SeparateIds(_, _, _, _, _, _, _)
SeparateIds(adapter, store, spec, exclude_subjects, k, sets, calls) ==
    IF k > Len(EvalOrder) THEN [ok |-> TRUE, sets |-> sets, calls |-> calls]
    ELSE IF EvalOrder[k] \notin DOMAIN spec
    THEN SeparateIds(adapter, store, spec, exclude_subjects, k + 1, sets, calls)
    ELSE LET r == ModalityIds(adapter, store, spec, EvalOrder[k],
                              exclude_subjects)
             now == calls \o Tagged(EvalOrder[k], r.called)
         IN IF ~r.ok
            THEN [ok |-> FALSE, sets |-> <<>>, calls |-> now, err |-> r.err]
            ELSE SeparateIds(adapter, store, spec, exclude_subjects, k + 1,
                             Append(sets, Range(r.rows)), now)

\* as Intersection, comparing the ids of the pairs only
IntersectionOnIds(sets) ==
    {p \in sets[1] : \A k \in 1..Len(sets) : \E q \in sets[k] : q[1] = p[1]}

\* set.intersection(*separate_ids) for a non-empty list
Intersection(sets) ==
    {p \in sets[1] : \A k \in 1..Len(sets) : p \in sets[k]}

\* as IntersectAll, taking the intersection of no sets to be empty
IntersectAllOrEmpty(sets) ==
    [ok |-> TRUE, val |-> IF sets = <<>> THEN {} ELSE Intersection(sets)]

\* set.intersection(*separate_ids): a TypeError when the list is empty
IntersectAll(sets) ==
    IF sets = <<>> THEN [ok |-> FALSE, val |-> {}]
    ELSE [ok |-> TRUE, val |-> Intersection(sets)]

\* [(i, s) for i, s in ids if i in include_subjects]
RECURSIVE KeepIncluded(_, _)
KeepIncluded(ids, include_ids) ==
    IF ids = <<>> THEN <<>>
    ELSE (IF Head(ids)[1] \in include_ids THEN <<Head(ids)>> ELSE <<>>)
         \o KeepIncluded(Tail(ids), include_ids)

\* as Included, with 'last' returning the first element
IncludedLastIsFirst(ids, include_subjects) ==
    IF include_subjects.kind = "none" THEN {ids}
    ELSE IF Len(ids) > 0 /\ include_subjects.kind \in {"first", "last"}
    THEN {<<ids[1]>>}
    ELSE IF Len(ids) > 0 /\ include_subjects.kind = "random"
    THEN {<<ids[k]>> : k \in 1..Len(ids)}
    ELSE {KeepIncluded(ids, include_subjects.ids)}

\* the lists the inclusion policy can return for the sorted ids
Included(ids, include_subjects) ==
    IF include_subjects.kind = "none" THEN {ids}
    ELSE IF Len(ids) > 0 /\ include_subjects.kind = "first" THEN {<<ids[1]>>}
    ELSE IF Len(ids) > 0 /\ include_subjects.kind = "last"
    THEN {<<ids[Len(ids)]>>}
    ELSE IF Len(ids) > 0 /\ include_subjects.kind = "random"
    THEN {<<ids[k]>> : k \in 1..Len(ids)}
    ELSE {KeepIncluded(ids, include_subjects.ids)}

\* an outcome of a call: the returned value or the exception, whether the
\* warning was emitted, and the enumerator calls made
Outcome(status, err, keys, loc, value, warned, calls) ==
    [status |-> status, err |-> err, keys |-> keys, loc |-> loc,
     value |-> value, warned |-> warned, calls |-> calls]

\* as IsEmptyCollection, never taking a collection for empty
NeverEmptyCollection(include_subjects) == FALSE

\* include_subjects is not None and len(include_subjects) == 0
IsEmptyCollection(include_subjects) ==
    include_subjects.kind = "ids" /\ include_subjects.ids = {}

\* the outcomes specification_based_ids can have
SpecificationBasedIds(adapter, store, specification, include_subjects, exclude_subjects) ==
    LET v == ValidateSpecification(adapter.allowed_keys, specification)
        warned == SidesWarning(specification)
    IN IF ~v.ok
       THEN {Outcome("ValueError", "specification", v.keys, v.loc, <<>>,
                     FALSE, <<>>)}
       ELSE IF IsEmptyCollection(include_subjects)
       THEN {Outcome("ok", "", {}, "", <<>>, warned, <<>>)}
       ELSE LET sep == SeparateIds(adapter, store, specification,
                                   exclude_subjects, 1, <<>>, <<>>)
            IN IF ~sep.ok
               THEN {Outcome("ValueError", sep.err, {}, "", <<>>, warned,
                             sep.calls)}
               ELSE LET all == IntersectAll(sep.sets)
                    IN IF ~all.ok
                       THEN {Outcome("TypeError", "intersection", {}, "", <<>>,
                                     warned, sep.calls)}
                       ELSE {Outcome("ok", "", {}, "", value, warned,
                                     sep.calls) :
                               value \in Included(SortedPairSet(all.val),
                                                  include_subjects)}

(***************************************************************************)
(* Construction.  An adapter is built from the paths that are supplied;    *)
(* a mixin adds its modality to allowed_keys only when its path is given.  *)
(* The subclass constructors then set the default exclusion sets.          *)
(***************************************************************************)
\* DataQuery.__init__: self.allowed_keys
BaseAllowedKeys == {"subject", "side", "collection"}

\* the class attributes _default_*_exclude = ()
ClassDefaults == [hrirs |-> {}, images |-> {}, anthropometry |-> {}]

\* the defaults a subclass constructor assigns, as CipicDataQuery does for
\* its two dummies: both for hrirs and anthropometry, one for images
SubclassDefaults == [hrirs |-> {1, 2}, images |-> {1}, anthropometry |-> {1, 2}]

\* the __init__ chain of a collection class
NewAdapter(sofa_directory_path, image_directory_path, anthropometry_path, defaults) ==
    [allowed_keys |->
        BaseAllowedKeys
        \cup (IF sofa_directory_path THEN {"hrirs"} ELSE {})
        \cup (IF anthropometry_path THEN {"anthropometry"} ELSE {})
        \cup (IF image_directory_path THEN {"image"} ELSE {}),
     default_hrirs_exclude |-> defaults.hrirs,
     default_images_exclude |-> defaults.images,
     default_anthropometry_exclude |-> defaults.anthropometry]

(***************************************************************************)
(* Inputs of the model.                                                    *)
(***************************************************************************)
\* the eight selectors of the grammar
GrammarSides ==
    {S_left, S_right, S_both, S_any,
     S_both \o <<"-">> \o S_left, S_both \o <<"-">> \o S_right,
     S_any \o <<"-">> \o S_left, S_any \o <<"-">> \o S_right}

\* other strings: front, both-up, anyleft, left-any
OtherSides ==
    {<<"f", "r", "o", "n", "t">>,
     S_both \o <<"-", "u", "p">>,
     S_any \o S_left,
     S_left \o <<"-">> \o S_any}

AllSideInputs == GrammarSides \cup OtherSides

\* id enumerations without duplicates, in any order, of at most MaxLen ids
Enumerations ==
    {e \in UNION {[1..n -> Ids] : n \in 0..MaxLen} :
        \A j, k \in 1..Len(e) : j # k => e[j] # e[k]}

\* exclusion arguments: None, or a collection of at most one id
SmallSets == {{}} \cup {{i} : i \in Ids}
ExcludeInputs == {None} \cup {Some(S) : S \in SmallSets}

\* what the enumerators of the three modalities find: every subject on both
\* sides (Complete*) or a collection with gaps (Gappy*)
AscendingIds == [k \in 1..MaxId |-> k]
DescendingIds == [k \in 1..MaxId |-> MaxId + 1 - k]

CompleteHrirs == [left |-> AscendingIds, right |-> AscendingIds]
GappyHrirs == [left |-> SortedInts(Ids \ {2}), right |-> SortedInts(Ids \ {2})]

CompleteImage == [left |-> AscendingIds, right |-> AscendingIds]
GappyImage == [left |-> SortedInts(Ids \ {1}), right |-> SortedInts(Ids \ {MaxId})]

CompleteAnthropometry ==
    [ids |-> AscendingIds,
     order |-> <<"head-torso", "pinna-size">>,
     groups |-> ("head-torso" :> [r \in 1..MaxId |-> <<TRUE>>])
             @@ ("pinna-size" :>
                   [left |-> [r \in 1..MaxId |-> <<TRUE, TRUE>>],
                    right |-> [r \in 1..MaxId |-> <<TRUE, TRUE>>]])]

\* raw order descending; subject 1 has no left pinna measurements, subject 2
\* lacks one of its right pinna measurements
GappyAnthropometry ==
    [ids |-> DescendingIds,
     order |-> <<"head-torso", "pinna-size">>,
     groups |-> ("head-torso" :> [r \in 1..MaxId |-> <<TRUE>>])
             @@ ("pinna-size" :>
                   [left |-> [r \in 1..MaxId |->
                                IF DescendingIds[r] = 1 THEN <<FALSE, FALSE>>
                                ELSE <<TRUE, TRUE>>],
                    right |-> [r \in 1..MaxId |->
                                IF DescendingIds[r] = 2 THEN <<TRUE, FALSE>>
                                ELSE <<TRUE, TRUE>>]])]

\* the store of an adapter built without an anthropometry path
EmptyAnthropometry == [ids |-> <<>>, order |-> <<>>, groups |-> <<>>]

Stores ==
    [hrirs : {CompleteHrirs, GappyHrirs},
     image : {CompleteImage, GappyImage},
     anthropometry : {CompleteAnthropometry, GappyAnthropometry}]

EmptyStore ==
    [hrirs |-> [left |-> <<>>, right |-> <<>>],
     image |-> [left |-> <<>>, right |-> <<>>],
     anthropometry |-> EmptyAnthropometry]

\* selections and partial flags of anthropometry_ids
SelectInputs ==
    {NoSelect, StrSelect("pinna-size"),
     TupleSelect(<<"pinna-size", "head-torso">>), StrSelect("foo")}

\* blocks of the specifications handed to specification_based_ids
Block(side, exclude, select, partial, other) ==
    [side |-> side, exclude |-> exclude, select |-> select,
     partial |-> partial, other |-> other]

ResolverSides ==
    {S_left, S_both, S_any \o <<"-">> \o S_right, <<"f", "r", "o", "n", "t">>}

ResolverBlocks ==
    {Block(side, exclude, NoSelect, NoPartial, {}) :
        side \in {NoSide} \cup {SomeSide(x) : x \in ResolverSides},
        exclude \in {None, Some({MaxId})}}

\* a specification of features other than the three modalities
SubjectOnlySpec ==
    [key \in {"subject"} |-> Block(NoSide, None, NoSelect, NoPartial, {})]

ResolverSpecs ==
    UNION {[K -> ResolverBlocks] : K \in SUBSET {"hrirs", "image", "anthropometry"}}
    \cup {SubjectOnlySpec}

IncludeInputs ==
    {IncludeNone, IncludeWord("first"), IncludeWord("last"),
     IncludeWord("random"), IncludeIds({}), IncludeIds({1, MaxId})}

ExcludeSubjectsInputs == {None, Some({2})}

\* the specifications handed to validate_specification
PlainBlock(other) == Block(NoSide, None, NoSelect, NoPartial, other)

ValidatedModalityBlocks ==
    {Block(NoSide, exclude, NoSelect, NoPartial, other) :
        exclude \in {None, Some({})},
        other \in {{}, {"rear"}, {"foo", "zap"}, {"7", "transform"}}}

ValidatedBlocks(key) ==
    IF key \in {"hrirs", "image", "anthropometry"} THEN ValidatedModalityBlocks
    ELSE IF key = "subject" THEN {PlainBlock({"transform"}), PlainBlock({"foo"})}
    ELSE IF key = "collection" THEN {PlainBlock({"foo"})}
    ELSE {PlainBlock({})}

ValidatedRootKeys ==
    {"hrirs", "image", "anthropometry", "subject", "collection", "bar", "7"}

\* every assignment of a block to each key of K
RECURSIVE SpecsOver(_)
SpecsOver(K) ==
    IF K = {} THEN {<<>>}
    ELSE LET k == CHOOSE x \in K : TRUE
         IN {(k :> b) @@ f : b \in ValidatedBlocks(k), f \in SpecsOver(K \ {k})}

ValidatedSpecs == UNION {SpecsOver(K) : K \in SUBSET ValidatedRootKeys}

(***************************************************************************)
(* The measurement names.  _CIPIC_ANTHROPOMETRY_NAMES is one dictionary of *)
(* the module, shared by every adapter; the property _anthropometry_names  *)
(* of a class returns the names of its groups.                             *)
(***************************************************************************)
CipicAnthropometryNames ==
    [weight |-> <<"weight">>,
     age |-> <<"age">>,
     sex |-> <<"sex">>] @@
    ("head-torso" :>
        <<"head width", "head height", "head depth", "pinna offset down",
          "pinna offset back", "neck width", "neck height", "neck depth",
          "torso top width", "torso top height", "torso top depth",
          "shoulder width", "head offset forward", "height", "seated height",
          "head circumference", "shoulder circumference">>) @@
    ("pinna-size" :>
        <<"cavum concha height", "cymba concha height", "cavum concha width",
          "fossa height", "pinna height", "pinna width",
          "intertragal incisure width", "cavum concha depth">>) @@
    ("pinna-angle" :> <<"pinna rotation angle", "pinna flare angle">>)

\* the names AriDataQuery adds to pinna-size
AriPinnaNames == <<"a1", "a2", "a3", "a4", "a5", "a6", "a7", "a8", "a9">>

\* the groups of the CIPIC and ARI stores, in the order they are stored
CipicGroups ==
    <<"weight", "age", "sex", "head-torso", "pinna-size", "pinna-angle">>

\* one access of the property _anthropometry_names: the dictionary returned
\* and the module's dictionary after the access.  AriDataQuery binds the
\* module's dictionary itself and stores the extended tuple back into it.
AnthropometryNamesProperty(collection_id, table) ==
    IF collection_id = "ari"
    THEN LET anthropometry_names ==
                 [table EXCEPT !["pinna-size"] = @ \o AriPinnaNames]
         IN [table |-> anthropometry_names, value |-> anthropometry_names]
    ELSE [table |-> table, value |-> table]

\* [n for s in select for n in self._anthropometry_names[s]]: the property
\* is accessed once for each selected group
RECURSIVE NamesOver(_, _, _, _)
NamesOver(collection_id, select, table, names) ==
    IF select = <<>> THEN [table |-> table, names |-> names]
    ELSE LET access == AnthropometryNamesProperty(collection_id, table)
         IN NamesOver(collection_id, Tail(select), access.table,
                      names \o access.value[Head(select)])

\* anthropometry_names(select): the names or the ValueError, and the
\* module's dictionary after the call
AnthropometryNames(collection_id, anth, table, select) ==
    LET sel == SelectionValidator(anth, select)
    IN IF ~sel.ok THEN [ok |-> FALSE, table |-> table, names |-> <<>>]
       ELSE LET r == NamesOver(collection_id, sel.val, table, <<>>)
            IN [ok |-> TRUE, table |-> r.table, names |-> r.names]

\* how many times the dictionary's pinna-size entry has been extended
Extensions(table) ==
    (Len(table["pinna-size"]) - Len(CipicAnthropometryNames["pinna-size"]))
    \div Len(AriPinnaNames)

(***************************************************************************)
(* The state: an adapter and the collection it reads, and the call in      *)
(* progress.  A caller makes one call at a time and takes its outcome.     *)
(***************************************************************************)
VARIABLES
    adapter,    \* the attributes of the DataQuery object
    store,      \* what its enumerators find
    pc,         \* "idle", or "done" when a call has returned or raised
    call,       \* the operation called and its arguments
    ret,        \* its outcome
    names_table \* the module's _CIPIC_ANTHROPOMETRY_NAMES dictionary

vars == <<adapter, store, pc, call, ret, names_table>>

NoCall == [op |-> "none"]
NoRet == [status |-> "none"]

\* the outcome of one id query
IdsOutcome(r) ==
    Outcome(IF r.ok THEN "ok" ELSE "ValueError", r.err, {}, "", r.rows,
            FALSE, r.called)

\* DataQuery._id_helper called with an enumerator returning left_ids, right_ids
IdHelperCall(side, left_ids, right_ids, exclude, default_exclude) ==
    /\ pc = "idle"
    /\ pc' = "done"
    /\ call' = [op |-> "_id_helper", side |-> side, left_ids |-> left_ids,
                right_ids |-> right_ids, exclude |-> exclude,
                default_exclude |-> default_exclude]
    /\ ret' = IdsOutcome(IdHelper(side,
                                  [left |-> Returned(left_ids),
                                   right |-> Returned(right_ids)],
                                  exclude, default_exclude))
    /\ UNCHANGED <<adapter, store, names_table>>

HrirIdsCall(side, exclude) ==
    /\ pc = "idle"
    /\ "hrirs" \in adapter.allowed_keys
    /\ pc' = "done"
    /\ call' = [op |-> "hrir_ids", side |-> side, exclude |-> exclude]
    /\ ret' = IdsOutcome(HrirIds(adapter, store, side, exclude))
    /\ UNCHANGED <<adapter, store, names_table>>

ImageIdsCall(side, exclude) ==
    /\ pc = "idle"
    /\ "image" \in adapter.allowed_keys
    /\ pc' = "done"
    /\ call' = [op |-> "image_ids", side |-> side, exclude |-> exclude]
    /\ ret' = IdsOutcome(ImageIds(adapter, store, side, exclude))
    /\ UNCHANGED <<adapter, store, names_table>>

AnthropometryIdsCall(side, select, partial, exclude) ==
    /\ pc = "idle"
    /\ "anthropometry" \in adapter.allowed_keys
    /\ pc' = "done"
    /\ call' = [op |-> "anthropometry_ids", side |-> side, select |-> select,
                partial |-> partial, exclude |-> exclude]
    /\ ret' = IdsOutcome(AnthropometryIds(adapter, store, side, select,
                                          partial, exclude))
    /\ UNCHANGED <<adapter, store, names_table>>

ValidateCall(spec) ==
    /\ pc = "idle"
    /\ pc' = "done"
    /\ call' = [op |-> "validate_specification", specification |-> spec]
    /\ ret' = LET v == ValidateSpecification(adapter.allowed_keys, spec)
              IN Outcome(IF v.ok THEN "ok" ELSE "ValueError",
                         IF v.ok THEN "" ELSE "specification",
                         v.keys, v.loc, <<>>, FALSE, <<>>)
    /\ UNCHANGED <<adapter, store, names_table>>

ResolveCall(spec, include_subjects, exclude_subjects) ==
    /\ pc = "idle"
    /\ pc' = "done"
    /\ call' = [op |-> "specification_based_ids", specification |-> spec,
                include_subjects |-> include_subjects,
                exclude_subjects |-> exclude_subjects]
    /\ ret' \in SpecificationBasedIds(adapter, store, spec, include_subjects,
                                      exclude_subjects)
    /\ UNCHANGED <<adapter, store, names_table>>

\* the caller takes the outcome
Return ==
    /\ pc = "done"
    /\ pc' = "idle"
    /\ call' = NoCall
    /\ ret' = NoRet
    /\ UNCHANGED <<adapter, store, names_table>>

(***************************************************************************)
(* Spec: an adapter built with all three paths, over each collection.      *)
(***************************************************************************)
Init ==
    /\ \E defaults \in {ClassDefaults, SubclassDefaults} :
          adapter = NewAdapter(TRUE, TRUE, TRUE, defaults)
    /\ store \in Stores
    /\ pc = "idle"
    /\ call = NoCall
    /\ ret = NoRet
    /\ names_table = CipicAnthropometryNames

Next ==
    \/ /\ pc = "idle"
       /\ \E side \in AllSideInputs, exclude \in ExcludeInputs :
             HrirIdsCall(side, exclude)
    \/ /\ pc = "idle"
       /\ \E side \in AllSideInputs, exclude \in ExcludeInputs :
             ImageIdsCall(side, exclude)
    \/ /\ pc = "idle"
       /\ \E side \in AllSideInputs, select \in SelectInputs,
             partial \in BOOLEAN, exclude \in ExcludeInputs :
             AnthropometryIdsCall(side, select, partial, exclude)
    \/ /\ pc = "idle"
       /\ \E spec \in ResolverSpecs, include_subjects \in IncludeInputs,
             exclude_subjects \in ExcludeSubjectsInputs :
             ResolveCall(spec, include_subjects, exclude_subjects)
    \/ Return

Spec == Init /\ [][Next]_vars

(***************************************************************************)
(* SpecIdHelper: the static _id_helper on every small enumerator.          *)
(***************************************************************************)
InitIdHelper ==
    /\ adapter = NewAdapter(FALSE, FALSE, FALSE, ClassDefaults)
    /\ store = EmptyStore
    /\ pc = "idle"
    /\ call = NoCall
    /\ ret = NoRet
    /\ names_table = CipicAnthropometryNames

NextIdHelper ==
    \/ /\ pc = "idle"
       /\ \E side \in AllSideInputs, left_ids \in Enumerations,
             right_ids \in Enumerations, exclude \in ExcludeInputs,
             default_exclude \in SmallSets :
             IdHelperCall(side, left_ids, right_ids, exclude, default_exclude)
    \/ Return

SpecIdHelper == InitIdHelper /\ [][NextIdHelper]_vars

(***************************************************************************)
(* SpecValidate: validate_specification on adapters built with any of the  *)
(* three paths.                                                            *)
(***************************************************************************)
InitValidate ==
    /\ \E sofa \in BOOLEAN, image \in BOOLEAN, anth \in BOOLEAN :
          adapter = NewAdapter(sofa, image, anth, ClassDefaults)
    /\ store = EmptyStore
    /\ pc = "idle"
    /\ call = NoCall
    /\ ret = NoRet
    /\ names_table = CipicAnthropometryNames

NextValidate ==
    \/ /\ pc = "idle"
       /\ \E spec \in ValidatedSpecs : ValidateCall(spec)
    \/ Return

SpecValidate == InitValidate /\ [][NextValidate]_vars

(***************************************************************************)
(* SpecAnthropometry: _all_anthropometry_ids on every small anthropometry  *)
(* store: MaxSubjects subjects in any raw order, one head-torso            *)
(* measurement and one pinna-size measurement per ear, each a number or    *)
(* NaN.                                                                    *)
(***************************************************************************)
MaxSubjects == 2

SubjectOrders ==
    {o \in [1..MaxSubjects -> 1..MaxSubjects] :
        \A a, b \in 1..MaxSubjects : o[a] = o[b] => a = b}

\* one measurement column: a row of one entry per subject
Columns == [1..MaxSubjects -> {<<TRUE>>, <<FALSE>>}]

AnthropometryStores ==
    {[ids |-> o,
      order |-> <<"head-torso", "pinna-size">>,
      groups |-> ("head-torso" :> h)
              @@ ("pinna-size" :> [left |-> l, right |-> r])] :
        o \in SubjectOrders, h \in Columns, l \in Columns, r \in Columns}

\* the sides and selections handed to _all_anthropometry_ids
PhysicalSides == {S_left, S_right, S_mirrored_left, S_mirrored_right}

EnumeratorSides == PhysicalSides \cup {S_any}

EnumeratorSelects ==
    {NoSelect, StrSelect("pinna-size"), StrSelect("head-torso"),
     TupleSelect(<<"pinna-size", "head-torso">>), StrSelect("foo")}

\* AnthropometryDataQuery._all_anthropometry_ids(side, select, partial)
AllAnthropometryIdsCall(side, select, partial) ==
    /\ pc = "idle"
    /\ pc' = "done"
    /\ call' = [op |-> "_all_anthropometry_ids", side |-> side,
                select |-> select, partial |-> partial]
    /\ ret' = LET r == AllAnthropometryIds(store.anthropometry, side, select,
                                           partial)
              IN Outcome(IF r.ok THEN "ok" ELSE "ValueError",
                         IF r.ok THEN "" ELSE "enumerator",
                         {}, "", r.ids, FALSE, <<>>)
    /\ UNCHANGED <<adapter, store, names_table>>

InitAnthropometry ==
    /\ adapter = NewAdapter(FALSE, FALSE, TRUE, ClassDefaults)
    /\ \E a \in AnthropometryStores :
          store = [hrirs |-> [left |-> <<>>, right |-> <<>>],
                   image |-> [left |-> <<>>, right |-> <<>>],
                   anthropometry |-> a]
    /\ pc = "idle"
    /\ call = NoCall
    /\ ret = NoRet
    /\ names_table = CipicAnthropometryNames

NextAnthropometry ==
    \/ /\ pc = "idle"
       /\ \E side \in EnumeratorSides, select \in EnumeratorSelects,
             partial \in BOOLEAN :
             AllAnthropometryIdsCall(side, select, partial)
    \/ Return

SpecAnthropometry == InitAnthropometry /\ [][NextAnthropometry]_vars

(***************************************************************************)
(* SpecNames: the queries of a CIPIC or an ARI adapter, anthropometry_names *)
(* among them, called one after another in one process.  The extensions of *)
(* the names dictionary are capped at MaxExtensions.                       *)
(***************************************************************************)
MaxExtensions == 6

\* (10, 22, 826), the subjects AriDataQuery leaves out of its hrirs
AriDefaults == [hrirs |-> Ids \ {1}, images |-> {}, anthropometry |-> {}]

\* the __init__ chain of CipicDataQuery or AriDataQuery with its collection_id
NewCollectionAdapter(collection_id) ==
    [collection_id |-> collection_id]
    @@ NewAdapter(TRUE, collection_id = "cipic", TRUE,
                  IF collection_id = "ari" THEN AriDefaults
                  ELSE SubclassDefaults)

\* a store with every measurement of the six groups present
FullMatrix == [r \in 1..MaxId |-> <<TRUE>>]

NamedAnthropometry ==
    [ids |-> AscendingIds,
     order |-> CipicGroups,
     groups |-> [g \in Range(CipicGroups) |->
                    IF IsPinna(g) THEN [left |-> FullMatrix, right |-> FullMatrix]
                    ELSE FullMatrix]]

NamesSelects ==
    {NoSelect, StrSelect("pinna-size"), StrSelect("head-torso"),
     TupleSelect(<<"head-torso", "pinna-size">>), StrSelect("foo")}

\* AnthropometryDataQuery.anthropometry_names(select)
AnthropometryNamesCall(select) ==
    LET r == AnthropometryNames(adapter.collection_id, store.anthropometry,
                                names_table, select)
    IN /\ pc = "idle"
       /\ Extensions(r.table) <= MaxExtensions
       /\ pc' = "done"
       /\ call' = [op |-> "anthropometry_names", select |-> select]
       /\ ret' = Outcome(IF r.ok THEN "ok" ELSE "ValueError",
                         IF r.ok THEN "" ELSE "select",
                         {}, "", r.names, FALSE, <<>>)
       /\ names_table' = r.table
       /\ UNCHANGED <<adapter, store>>

InitNames ==
    /\ \E collection_id \in {"cipic", "ari"} :
          /\ adapter = NewCollectionAdapter(collection_id)
          /\ store = [hrirs |-> CompleteHrirs,
                      image |-> IF collection_id = "cipic" THEN CompleteImage
                                ELSE [left |-> <<>>, right |-> <<>>],
                      anthropometry |-> NamedAnthropometry]
    /\ pc = "idle"
    /\ call = NoCall
    /\ ret = NoRet
    /\ names_table = CipicAnthropometryNames

NextNames ==
    \/ /\ pc = "idle"
       /\ \E select \in NamesSelects : AnthropometryNamesCall(select)
    \/ /\ pc = "idle"
       /\ \E side \in AllSideInputs, exclude \in ExcludeInputs :
             HrirIdsCall(side, exclude)
    \/ /\ pc = "idle"
       /\ \E side \in AllSideInputs, select \in SelectInputs,
             partial \in BOOLEAN, exclude \in ExcludeInputs :
             AnthropometryIdsCall(side, select, partial, exclude)
    \/ /\ pc = "idle"
       /\ \E spec \in ResolverSpecs, include_subjects \in IncludeInputs,
             exclude_subjects \in ExcludeSubjectsInputs :
             ResolveCall(spec, include_subjects, exclude_subjects)
    \/ Return

SpecNames == InitNames /\ [][NextNames]_vars

(***************************************************************************)
(* Properties of the side resolver, checked under SpecIdHelper.            *)
(***************************************************************************)
IdHelperDone == pc = "done" /\ call.op = "_id_helper"

Sel(prefix, suffix) == prefix \o <<"-">> \o suffix

\* the exclusion set in effect for the call
CallExclusion ==
    IF call.exclude.given THEN call.exclude.ids ELSE call.default_exclude

\* the two labels the grammar attaches to a selector
GrammarLabels(side) ==
    IF side \in {S_both, S_any} THEN <<S_left, S_right>>
    ELSE IF side \in {Sel(S_both, S_left), Sel(S_any, S_left)}
    THEN <<S_left, S_mirrored_right>>
    ELSE <<S_mirrored_left, S_right>>

\* C1: for the selectors both, both-left and both-right the resolver returns
\* exactly the rows (i, label) with i in both enumerations and not excluded
\* and label one of the two derived labels, two rows for each such id.
C1_BothRows ==
    (IdHelperDone /\ call.side \in {S_both, Sel(S_both, S_left),
                                    Sel(S_both, S_right)})
    => LET Q == (Range(call.left_ids) \cap Range(call.right_ids))
                \ CallExclusion
           labels == GrammarLabels(call.side)
       IN /\ ret.status = "ok"
          /\ Range(ret.value) = {<<i, labels[k]>> : i \in Q, k \in {1, 2}}
          /\ Len(ret.value) = 2 * Cardinality(Q)

C1_Witness ==
    /\ IdHelperDone
    /\ call.side = S_both
    /\ call.left_ids = <<1, 2>>
    /\ call.right_ids = <<2, 3>>
    /\ ~call.exclude.given /\ call.default_exclude = {}
    /\ ret.value = <<<<2, S_left>>, <<2, S_right>>>>

\* C2: for the selectors any, any-left and any-right the resolver returns
\* exactly one row (i, first label) for each non-excluded id of the left
\* enumeration and one row (i, second label) for each non-excluded id of the
\* right enumeration, and nothing else.
C2_AnyRows ==
    (IdHelperDone /\ call.side \in {S_any, Sel(S_any, S_left),
                                    Sel(S_any, S_right)})
    => LET L == Range(call.left_ids) \ CallExclusion
           R == Range(call.right_ids) \ CallExclusion
           labels == GrammarLabels(call.side)
       IN /\ ret.status = "ok"
          /\ Range(ret.value) = {<<i, labels[1]>> : i \in L}
                                \cup {<<i, labels[2]>> : i \in R}
          /\ Len(ret.value) = Cardinality(L) + Cardinality(R)

C2_Witness ==
    /\ IdHelperDone
    /\ call.side = Sel(S_any, S_left)
    /\ call.left_ids = <<1, 2>>
    /\ call.right_ids = <<2, 3>>
    /\ ~call.exclude.given /\ call.default_exclude = {}
    /\ ret.value = <<<<1, S_left>>, <<2, S_left>>, <<2, S_mirrored_right>>,
                     <<3, S_mirrored_right>>>>

\* C3: the labels of the rows depend on the selector's suffix only: left and
\* right give that label; both and any give left or right; -left gives left
\* or mirrored-right; -right gives mirrored-left or right.  A row with the
\* first label has an id of the left enumeration, a row with the second
\* label an id of the right enumeration.
C3_Labels ==
    (IdHelperDone /\ call.side \in GrammarSides)
    => \A k \in 1..Len(ret.value) :
          LET i == ret.value[k][1]
              label == ret.value[k][2]
          IN IF call.side = S_left
             THEN label = S_left /\ i \in Range(call.left_ids)
             ELSE IF call.side = S_right
             THEN label = S_right /\ i \in Range(call.right_ids)
             ELSE /\ label \in Range(GrammarLabels(call.side))
                  /\ label = GrammarLabels(call.side)[1]
                        => i \in Range(call.left_ids)
                  /\ label = GrammarLabels(call.side)[2]
                        => i \in Range(call.right_ids)

C3_Witness ==
    /\ IdHelperDone
    /\ call.side = Sel(S_both, S_left)
    /\ \E k \in 1..Len(ret.value) : ret.value[k] = <<2, S_mirrored_right>>
    /\ \E k \in 1..Len(ret.value) : ret.value[k] = <<2, S_left>>

\* the ids the selector admits before exclusion
Candidates ==
    IF StartsWith(call.side, S_both)
    THEN Range(call.left_ids) \cap Range(call.right_ids)
    ELSE IF StartsWith(call.side, S_any)
    THEN Range(call.left_ids) \cup Range(call.right_ids)
    ELSE IF call.side = S_left THEN Range(call.left_ids)
    ELSE Range(call.right_ids)

\* C4: the exclusion set in effect is the exclude argument whenever one is
\* given, the empty one included, and the default set only when it is None;
\* the ids returned are the admitted ids outside that set, so that an id of
\* the default set is kept when a given exclude does not hold it.
C4_Exclusion ==
    (IdHelperDone /\ call.side \in GrammarSides)
    => {ret.value[k][1] : k \in 1..Len(ret.value)}
         = Candidates \ (IF call.exclude.given THEN call.exclude.ids
                         ELSE call.default_exclude)

C4_Witness ==
    /\ IdHelperDone
    /\ call.side = S_left
    /\ call.exclude = Some({})
    /\ call.default_exclude = {1}
    /\ call.left_ids = <<1, 2>>
    /\ ret.value = <<<<1, S_left>>, <<2, S_left>>>>

\* C5: the resolver accepts the eight selectors of the grammar and rejects
\* every other string with an "unknown side" error, returning no rows.
C5_OnlyGrammar ==
    IdHelperDone
    => IF call.side \in GrammarSides THEN ret.status = "ok"
       ELSE ret.status = "ValueError" /\ ret.err = "side" /\ ret.value = <<>>

(***************************************************************************)
(* Properties of validate_specification, checked under SpecValidate.       *)
(***************************************************************************)
ValidateDone == pc = "done" /\ call.op = "validate_specification"

\* the schema as the specification document fixes it
FixedRootKeys ==
    {"subject", "side", "collection", "hrirs", "image", "anthropometry"}

FixedBlockKeys(loc) ==
    IF loc = "hrirs"
    THEN {"side", "domain", "fundamental_angles", "orthogonal_angles",
          "scale_factor", "samplerate", "length", "min_phase", "exclude",
          "preprocess", "transform"}
    ELSE IF loc = "image" THEN {"side", "rear", "preprocess", "transform"}
    ELSE IF loc = "anthropometry"
    THEN {"side", "select", "partial", "preprocess", "transform"}
    ELSE {"preprocess", "transform"}

\* the locations in the order they are validated; "" is the root
Locations ==
    <<"", "hrirs", "subject", "side", "collection", "image", "anthropometry">>

\* the non-numeric keys of spec at a location that are outside the allowed
\* set, the root being allowed root_keys
Offending(spec, root_keys, loc) ==
    IF loc = "" THEN {x \in DOMAIN spec \ root_keys : x \notin NumberKeys}
    ELSE IF loc \notin DOMAIN spec THEN {}
    ELSE {x \in BlockKeys(spec[loc]) \ FixedBlockKeys(loc) : x \notin NumberKeys}

\* C6 as claimed: validation fails exactly when some location holds a
\* non-numeric key outside the fixed schema, whatever the adapter.
C6_FixedSchema ==
    ValidateDone
    => (ret.status = "ValueError"
        <=> \E k \in 1..Len(Locations) :
               Offending(call.specification, FixedRootKeys, Locations[k]) # {})

\* C6 amended: the root's allowed set is subject, side, collection and those
\* of hrirs, image, anthropometry whose path was given at construction; with
\* that root set and the fixed block sets, validation fails exactly when some
\* location holds a non-numeric key outside its allowed set.
C6_AdapterSchema ==
    /\ BaseAllowedKeys \subseteq adapter.allowed_keys
    /\ adapter.allowed_keys \subseteq FixedRootKeys
    /\ ValidateDone
       => (ret.status = "ValueError"
           <=> \E k \in 1..Len(Locations) :
                  Offending(call.specification, adapter.allowed_keys,
                            Locations[k]) # {})

\* an adapter built without a sofa path rejects a well-formed hrirs block,
\* and a numeric key passes
C6_Witness ==
    /\ ValidateDone
    /\ "hrirs" \notin adapter.allowed_keys
    /\ DOMAIN call.specification = {"hrirs", "7"}
    /\ BlockKeys(call.specification["hrirs"]) = {"7", "transform"}
    /\ ret.status = "ValueError"

\* the error names x: as one of its keys or as its location
Names(x) == x \in ret.keys \/ x = ret.loc

\* C7 as claimed: a rejected spec's error names every unknown key of the
\* offending location and the location, and every spec whose hrirs block
\* holds the key foo is rejected with an error naming foo and hrirs.
C7_NamesFooAndHrirs ==
    (/\ ValidateDone
     /\ "hrirs" \in DOMAIN call.specification
     /\ "foo" \in BlockKeys(call.specification["hrirs"]))
    => ret.status = "ValueError" /\ Names("foo") /\ Names("hrirs")

\* the first location, in validation order, with an offending key
FirstOffending(spec, root_keys) ==
    LET ks == {k \in 1..Len(Locations) :
                  Offending(spec, root_keys, Locations[k]) # {}}
    IN Locations[CHOOSE k \in ks : \A j \in ks : k <= j]

\* C7 amended: the error of a rejected spec names all the unknown
\* non-numeric keys of the first offending location, in the order root,
\* hrirs, subject, side, collection, image, anthropometry, and that location
\* (the root as "specification"); a spec whose root keys are all allowed for
\* the adapter and whose hrirs block holds foo is rejected with an error
\* naming foo and hrirs.
C7_FirstLocation ==
    ValidateDone
    => /\ ret.status = "ValueError"
          => LET loc == FirstOffending(call.specification,
                                       adapter.allowed_keys)
             IN /\ ret.loc = (IF loc = "" THEN "specification" ELSE loc)
                /\ ret.keys = Offending(call.specification,
                                        adapter.allowed_keys, loc)
       /\ (/\ "hrirs" \in DOMAIN call.specification
           /\ "foo" \in BlockKeys(call.specification["hrirs"])
           /\ Offending(call.specification, adapter.allowed_keys, "") = {})
          => /\ ret.status = "ValueError"
             /\ "foo" \in ret.keys
             /\ ret.loc = "hrirs"

C7_Witness ==
    /\ ValidateDone
    /\ "hrirs" \in DOMAIN call.specification
    /\ BlockKeys(call.specification["hrirs"]) = {"foo", "zap"}
    /\ ret.status = "ValueError"
    /\ ret.keys = {"foo", "zap"}
    /\ ret.loc = "hrirs"

(***************************************************************************)
(* Properties of specification_based_ids, checked under Spec.              *)
(***************************************************************************)
ResolveDone == pc = "done" /\ call.op = "specification_based_ids"

\* the modality blocks present in the specification of the call
Present == DOMAIN call.specification \cap {"image", "anthropometry", "hrirs"}

SideNames == {S_left, S_mirrored_left, S_mirrored_right, S_right}

\* the order of the side labels as strings
Rank(label) ==
    IF label = S_left THEN 1
    ELSE IF label = S_mirrored_left THEN 2
    ELSE IF label = S_mirrored_right THEN 3
    ELSE 4

\* (id, side) pairs ascending by id, then side label
Before(p, q) == p[1] < q[1] \/ (p[1] = q[1] /\ Rank(p[2]) < Rank(q[2]))

StrictlyAscending(seq) ==
    \A k \in 1..(Len(seq) - 1) : Before(seq[k], seq[k + 1])

\* the elements of a set of pairs in ascending order
Ascending(S) ==
    [k \in 1..Cardinality(S) |->
        CHOOSE p \in S : Cardinality({q \in S : Before(q, p)}) = k - 1]

\* the set the id query of a present modality resolves for its block
Resolved(m) ==
    Range(ModalityIds(adapter, store, call.specification, m,
                      call.exclude_subjects).rows)

\* the pairs every present modality resolves
Common == {p \in Ids \X SideNames : \A m \in Present : p \in Resolved(m)}

\* C8: with include_subjects None the call returns exactly the (id, side)
\* pairs that every present modality block resolves, compared as pairs, each
\* once, in strictly ascending order by id and then side label.
C8_Intersection ==
    (ResolveDone /\ call.include_subjects.kind = "none" /\ ret.status = "ok")
    => /\ Present # {}
       /\ Range(ret.value) = Common
       /\ StrictlyAscending(ret.value)

\* two modalities resolve an id under different labels; the pair that only
\* one of them holds is not returned, a common pair is
C8_Witness ==
    /\ ResolveDone /\ call.include_subjects.kind = "none" /\ ret.status = "ok"
    /\ Len(ret.value) > 1
    /\ \E m1, m2 \in Present :
          \E p \in Resolved(m1), q \in Resolved(m2) :
             /\ p[1] = q[1]
             /\ p \notin Resolved(m2)
             /\ p \notin Range(ret.value)
             /\ q \in Range(ret.value)

\* C9: 'first' returns the smallest and 'last' the largest element of the
\* sorted intersection S, 'random' one element of S, each the empty list
\* when S is empty; a non-empty id collection returns the elements of S with
\* an id of the collection, in the order of S.
C9_Inclusion ==
    (ResolveDone /\ ret.status = "ok")
    => LET S == Ascending(Common)
           inc == call.include_subjects
       IN /\ inc.kind = "first"
             => ret.value = (IF S = <<>> THEN <<>> ELSE <<S[1]>>)
          /\ inc.kind = "last"
             => ret.value = (IF S = <<>> THEN <<>> ELSE <<S[Len(S)]>>)
          /\ inc.kind = "random"
             => IF S = <<>> THEN ret.value = <<>>
                ELSE Len(ret.value) = 1 /\ ret.value[1] \in Common
          /\ (inc.kind = "ids" /\ inc.ids # {})
             => ret.value = Ascending({p \in Common : p[1] \in inc.ids})

C9_Witness ==
    /\ ResolveDone /\ ret.status = "ok"
    /\ call.include_subjects.kind = "last"
    /\ Cardinality(Common) > 2
    /\ ret.value = <<Ascending(Common)[Cardinality(Common)]>>

\* the side given in a present block
HasSide(m) ==
    m \in DOMAIN call.specification /\ call.specification[m].side.given

\* the default side by the priority hrirs, image, anthropometry
PriorityDefault ==
    IF HasSide("hrirs") THEN call.specification["hrirs"].side.val
    ELSE IF HasSide("image") THEN call.specification["image"].side.val
    ELSE IF HasSide("anthropometry")
    THEN call.specification["anthropometry"].side.val
    ELSE S_any

\* the side a present block is resolved with
EffectiveSide(m) ==
    IF HasSide(m) THEN call.specification[m].side.val ELSE PriorityDefault

\* the id query of a present modality made with a given side
QueryWith(m, side) ==
    IF m = "image"
    THEN ImageIds(adapter, store, side,
                  BlockExclude(call.specification, m, call.exclude_subjects))
    ELSE IF m = "anthropometry"
    THEN AnthropometryIds(adapter, store, side, BlockSelect(call.specification),
                          BlockPartial(call.specification),
                          BlockExclude(call.specification, m,
                                       call.exclude_subjects))
    ELSE HrirIds(adapter, store, side,
                 BlockExclude(call.specification, m, call.exclude_subjects))

DistinctSides ==
    {call.specification[m].side.val : m \in {x \in Present : HasSide(x)}}

EarlyReturn ==
    call.include_subjects.kind = "ids" /\ call.include_subjects.ids = {}

\* C10: on a spec that passes validation, the default side is the side of
\* the first of hrirs, image, anthropometry that gives one, else any; a
\* present block without a side is resolved with the default and a block
\* with a side with its own.  The warning is emitted exactly when the blocks
\* give more than one distinct side, and the call then still completes.
C10_DefaultSide ==
    (ResolveDone /\ ret.err # "specification")
    => /\ ret.warned <=> Cardinality(DistinctSides) > 1
       /\ (/\ ~EarlyReturn
           /\ Present # {}
           /\ \A m \in Present : EffectiveSide(m) \in GrammarSides)
          => /\ ret.status = "ok"
             /\ call.include_subjects.kind = "none"
                => Range(ret.value)
                     = {p \in Ids \X SideNames :
                          \A m \in Present :
                             p \in Range(QueryWith(m, EffectiveSide(m)).rows)}

\* hrirs gives no side, image gives left, anthropometry gives both: hrirs is
\* resolved with left, the warning is emitted and the call returns
C10_Witness ==
    /\ ResolveDone /\ ret.status = "ok" /\ ret.warned
    /\ call.include_subjects.kind = "none"
    /\ Present = {"image", "anthropometry", "hrirs"}
    /\ ~HasSide("hrirs")
    /\ HasSide("image") /\ call.specification["image"].side.val = S_left
    /\ HasSide("anthropometry")
    /\ call.specification["anthropometry"].side.val = S_both
    /\ PriorityDefault = S_left
    /\ ret.value # <<>>
    /\ \A k \in 1..Len(ret.value) : ret.value[k][2] = S_left

\* the exclusion a present block is resolved with: its own exclude entry,
\* else the caller's exclude_subjects (None leaving the modality's default)
ClaimedExclude(m) ==
    IF call.specification[m].exclude.given
    THEN Some(call.specification[m].exclude.ids)
    ELSE call.exclude_subjects

\* the id query of a present modality made with a given side and exclusion
QueryWithExclude(m, side, exclude) ==
    IF m = "image" THEN ImageIds(adapter, store, side, exclude)
    ELSE IF m = "anthropometry"
    THEN AnthropometryIds(adapter, store, side, BlockSelect(call.specification),
                          BlockPartial(call.specification), exclude)
    ELSE HrirIds(adapter, store, side, exclude)

\* C11: each present block of image, anthropometry and hrirs is resolved
\* with its own exclude entry if it has one, else with exclude_subjects, else
\* with the modality's default set; a block with an exclude entry is
\* resolved and not rejected.
C11_BlockExclude ==
    (/\ ResolveDone
     /\ ~EarlyReturn
     /\ Present # {}
     /\ \A m \in Present : EffectiveSide(m) \in GrammarSides)
    => /\ ret.status = "ok"
       /\ call.include_subjects.kind = "none"
          => Range(ret.value)
               = {p \in Ids \X SideNames :
                    \A m \in Present :
                       p \in Range(QueryWithExclude(m, EffectiveSide(m),
                                                    ClaimedExclude(m)).rows)}

\* the specification of the call passes validation
PassesValidation ==
    ValidateSpecification(adapter.allowed_keys, call.specification).ok

\* C13: with include_subjects an explicit empty collection, a call on a
\* spec that passes validation returns the empty list and no modality's id
\* query has been made, whatever the blocks contain: an id query either
\* raises or calls its enumerator, so the call returns normally with no
\* enumerator call recorded.
C13_EmptyInclude ==
    (ResolveDone /\ PassesValidation /\ EarlyReturn)
    => /\ ret.status = "ok"
       /\ ret.value = <<>>
       /\ ret.calls = <<>>

\* an early return on blocks that a resolution would fail on or enumerate
C13_Witness ==
    /\ ResolveDone /\ PassesValidation /\ EarlyReturn
    /\ Present = {"image", "hrirs"}
    /\ EffectiveSide("image") = S_left
    /\ EffectiveSide("hrirs") \notin GrammarSides
    /\ ret.status = "ok" /\ ret.value = <<>> /\ ret.calls = <<>>

\* C15: for every selector of the grammar, left and right included, and
\* whatever order the enumerator returns its ids in, the rows the side
\* resolver returns are in ascending order by (id, label).
C15_AscendingRows ==
    (IdHelperDone /\ call.side \in GrammarSides /\ ret.status = "ok")
    => StrictlyAscending(ret.value)

\* C16: whenever specification_based_ids ends in an error caused by the
\* specification, no modality's raw id enumeration has been performed at the
\* moment of failure.
C16_ErrorBeforeEnumeration ==
    (/\ ResolveDone
     /\ ret.status = "ValueError"
     /\ ret.err \in {"specification", "side"})
    => ret.calls = <<>>

\* C17 as stated: a specification that passes validation and names none of
\* image, anthropometry, hrirs never returns a result: every call on it
\* fails with an error.
C17_NeverResolved ==
    (ResolveDone /\ PassesValidation /\ Present = {}) => ret.status # "ok"

\* C17: a specification that passes validation and names none of image,
\* anthropometry, hrirs fails with the TypeError of an intersection of no
\* sets for every include_subjects other than an explicit empty collection,
\* for which the call returns the empty list; no enumerator is called.
C17_ErrorUnlessEmptyInclude ==
    (ResolveDone /\ PassesValidation /\ Present = {})
    => /\ ret.calls = <<>>
       /\ IF EarlyReturn
          THEN ret.status = "ok" /\ ret.value = <<>>
          ELSE ret.status = "TypeError" /\ ret.err = "intersection"

\* a call on the empty specification that asks for the first subject
C17_Witness ==
    /\ ResolveDone /\ PassesValidation /\ Present = {}
    /\ call.specification = SubjectOnlySpec
    /\ call.include_subjects.kind = "first"
    /\ ret.status = "TypeError"

(***************************************************************************)
(* Claims about the anthropometry enumerator, under SpecAnthropometry.     *)
(***************************************************************************)
AllAnthropometryIdsDone == pc = "done" /\ call.op = "_all_anthropometry_ids"

\* the groups the call selects
SelectedGroups ==
    IF call.select.kind = "none" THEN Range(store.anthropometry.order)
    ELSE Range(call.select.val)

\* the measurements of subject row r the call selects, as (group, column,
\* present) triples: a pinna group is read from the store of the requested
\* physical side, any other group from the shared store
SelectedCells(r) ==
    UNION {LET matrix ==
                 IF g \in {"pinna-size", "pinna-angle"}
                 THEN (IF call.side \in {S_left, S_mirrored_left}
                       THEN store.anthropometry.groups[g].left
                       ELSE store.anthropometry.groups[g].right)
                 ELSE store.anthropometry.groups[g]
           IN {<<g, c, matrix[r][c]>> : c \in 1..Len(matrix[r])} :
           g \in SelectedGroups}

\* the presence policy for subject row r
Kept(r) ==
    IF call.partial THEN \E cell \in SelectedCells(r) : cell[3]
    ELSE \A cell \in SelectedCells(r) : cell[3]

\* C12: for a physical side and a selection of known groups, the
\* enumerator returns a subject iff, with partial false, none of its
\* selected measurements is missing and, with partial true, at least one of
\* them is present; pinna groups are read from the store of the requested
\* physical side, other groups from the shared store.
C12_PresencePolicy ==
    (/\ AllAnthropometryIdsDone
     /\ call.side \in PhysicalSides
     /\ SelectedGroups \subseteq Range(store.anthropometry.order))
    => /\ ret.status = "ok"
       /\ Range(ret.value) \subseteq Range(store.anthropometry.ids)
       /\ \A r \in 1..Len(store.anthropometry.ids) :
             store.anthropometry.ids[r] \in Range(ret.value) <=> Kept(r)

\* a partial selection of both groups on the right ear keeps a subject whose
\* right pinna measurement is missing and drops one with nothing measured
\* on the right, although its left pinna measurement is present
C12_Witness ==
    /\ AllAnthropometryIdsDone
    /\ call.side = S_mirrored_right
    /\ call.partial
    /\ call.select = TupleSelect(<<"pinna-size", "head-torso">>)
    /\ store.anthropometry.ids = <<2, 1>>
    /\ store.anthropometry.groups["head-torso"] = <<<<TRUE>>, <<FALSE>>>>
    /\ store.anthropometry.groups["pinna-size"].right = <<<<FALSE>>, <<FALSE>>>>
    /\ store.anthropometry.groups["pinna-size"].left = <<<<FALSE>>, <<TRUE>>>>
    /\ ret.value = <<2>>

(***************************************************************************)
(* Claims about the queries' effect on shared state, under SpecNames.      *)
(***************************************************************************)
AnthropometryNamesDone == pc = "done" /\ call.op = "anthropometry_names"

\* what the call returns on an adapter that has made no query yet
FirstNames ==
    AnthropometryNames(adapter.collection_id, store.anthropometry,
                       CipicAnthropometryNames, call.select).names

\* C14: no query operation changes shared state such as the measurement-name
\* table, and a call returns what the same call with the same arguments
\* returned before, for every adapter, ARI included.
C14_QueriesChangeNothing ==
    /\ names_table = CipicAnthropometryNames
    /\ (AnthropometryNamesDone /\ ret.status = "ok")
       => ret.value = FirstNames

====
